---- MODULE Spec2Model ----
(***************************************************************************)
(* web3/geth.py: the Geth management namespaces (personal, txpool, admin,  *)
(* miner) as thin bindings over the RPC method objects of web3._utils.     *)
(*                                                                         *)
(* A namespace class body is a table of entries.  A "def" entry is a       *)
(* method written in geth.py: it has a signature and forwards its          *)
(* arguments to a private attribute of the base class.  A "bind" entry is  *)
(* a class attribute assigned an imported RPC method object.  The RPC      *)
(* method objects themselves (web3._utils.personal, .txpool, .admin,       *)
(* .miner) and the request manager are outside geth.py.                    *)
(***************************************************************************)
EXTENDS Integers, Sequences, FiniteSets, TLC

\* Widest argument tuple a call site passes.
MaxArgs == 3
\* Number of coroutines the event loop runs at once.
MaxTasks == 2

\* Python's None.
None == "None"

ArgVals == {"v1", "v2", None}
ArgTuples == UNION {[1..n -> ArgVals] : n \in 0..MaxArgs}

\* What the dispatcher can answer: a decoded value or a raised error.
Results == {"r1", "r2"}
Errors == {"E1", "E2"}
Responses == [kind : {"result"}, val : Results] \cup [kind : {"error"}, val : Errors]
NoResp == [kind |-> "none", val |-> None]
NoOut == [kind |-> "none", val |-> None]

Tasks == 1..MaxTasks

VARIABLES
    args,   \* the argument tuple the call sites pass
    objs,   \* the namespace objects: their attributes
    last,   \* the most recently completed operation: what it issued, how it ended
    tasks   \* the coroutines of the event loop

vars == <<args, objs, last, tasks>>

----------------------------------------------------------------------------
\* Class bodies of geth.py

Def(name, attr, req, opt) ==
    [kind |-> "def", name |-> name, target |-> attr, req |-> req, opt |-> opt]

AsyncDef(name, attr, req, opt) ==
    [kind |-> "async def", name |-> name, target |-> attr, req |-> req, opt |-> opt]

Bind(name, fn) ==
    [kind |-> "bind", name |-> name, target |-> fn, req |-> 0, opt |-> 0]

BaseGethPersonal ==
    { Bind("_ec_recover", "ec_recover"),
      Bind("_import_raw_key", "import_raw_key"),
      Bind("_list_accounts", "list_accounts"),
      Bind("_list_wallets", "list_wallets"),
      Bind("_lock_account", "lock_account"),
      Bind("_new_account", "new_account"),
      Bind("_send_transaction", "send_transaction"),
      Bind("_sign", "sign"),
      Bind("_sign_typed_data", "sign_typed_data"),
      Bind("_unlock_account", "unlock_account"),
      Bind("_ecRecover", "ecRecover"),
      Bind("_importRawKey", "importRawKey"),
      Bind("_listAccounts", "listAccounts"),
      Bind("_lockAccount", "lockAccount"),
      Bind("_newAccount", "newAccount"),
      Bind("_sendTransaction", "sendTransaction"),
      Bind("_signTypedData", "signTypedData"),
      Bind("_unlockAccount", "unlockAccount") }

Mut_PersonalCanonical_PasswordDefault ==
    { Def("ec_recover", "_ec_recover", 2, 0),
      Def("import_raw_key", "_import_raw_key", 2, 0),
      Def("list_accounts", "_list_accounts", 0, 0),
      Def("list_wallets", "_list_wallets", 0, 0),
      Def("lock_account", "_lock_account", 1, 0),
      Def("new_account", "_new_account", 1, 0),
      Def("send_transaction", "_send_transaction", 2, 0),
      Def("sign", "_sign", 3, 0),
      Def("sign_typed_data", "_sign_typed_data", 2, 1),
      Def("unlock_account", "_unlock_account", 2, 1) }

PersonalCanonical ==
    { Def("ec_recover", "_ec_recover", 2, 0),
      Def("import_raw_key", "_import_raw_key", 2, 0),
      Def("list_accounts", "_list_accounts", 0, 0),
      Def("list_wallets", "_list_wallets", 0, 0),
      Def("lock_account", "_lock_account", 1, 0),
      Def("new_account", "_new_account", 1, 0),
      Def("send_transaction", "_send_transaction", 2, 0),
      Def("sign", "_sign", 3, 0),
      Def("sign_typed_data", "_sign_typed_data", 3, 0),
      Def("unlock_account", "_unlock_account", 2, 1) }

Mut_PersonalDeprecated_NoLockAccount ==
    { Def("ecRecover", "_ecRecover", 2, 0),
      Def("importRawKey", "_importRawKey", 2, 0),
      Def("listAccounts", "_listAccounts", 0, 0),
      Def("newAccount", "_newAccount", 1, 0),
      Def("sendTransaction", "_sendTransaction", 2, 0),
      Def("signTypedData", "_signTypedData", 2, 1),
      Def("unlockAccount", "_unlockAccount", 2, 1) }

PersonalDeprecated ==
    { Def("ecRecover", "_ecRecover", 2, 0),
      Def("importRawKey", "_importRawKey", 2, 0),
      Def("listAccounts", "_listAccounts", 0, 0),
      Def("lockAccount", "_lockAccount", 1, 0),
      Def("newAccount", "_newAccount", 1, 0),
      Def("sendTransaction", "_sendTransaction", 2, 0),
      Def("signTypedData", "_signTypedData", 2, 1),
      Def("unlockAccount", "_unlockAccount", 2, 1) }

GethPersonal == PersonalCanonical \cup PersonalDeprecated

Mut_AsyncGethPersonal_DurationRequired ==
    { AsyncDef("ec_recover", "_ec_recover", 2, 0),
      AsyncDef("import_raw_key", "_import_raw_key", 2, 0),
      AsyncDef("list_accounts", "_list_accounts", 0, 0),
      AsyncDef("list_wallets", "_list_wallets", 0, 0),
      AsyncDef("lock_account", "_lock_account", 1, 0),
      AsyncDef("new_account", "_new_account", 1, 0),
      AsyncDef("send_transaction", "_send_transaction", 2, 0),
      AsyncDef("sign", "_sign", 3, 0),
      AsyncDef("sign_typed_data", "_sign_typed_data", 3, 0),
      AsyncDef("unlock_account", "_unlock_account", 3, 0) }

AsyncGethPersonal ==
    { AsyncDef("ec_recover", "_ec_recover", 2, 0),
      AsyncDef("import_raw_key", "_import_raw_key", 2, 0),
      AsyncDef("list_accounts", "_list_accounts", 0, 0),
      AsyncDef("list_wallets", "_list_wallets", 0, 0),
      AsyncDef("lock_account", "_lock_account", 1, 0),
      AsyncDef("new_account", "_new_account", 1, 0),
      AsyncDef("send_transaction", "_send_transaction", 2, 0),
      AsyncDef("sign", "_sign", 3, 0),
      AsyncDef("sign_typed_data", "_sign_typed_data", 3, 0),
      AsyncDef("unlock_account", "_unlock_account", 2, 1) }

BaseTxPool ==
    { Bind("_content", "content"),
      Bind("_inspect", "inspect"),
      Bind("_status", "status") }

GethTxPool ==
    { Def("content", "_content", 0, 0),
      Def("inspect", "_inspect", 0, 0),
      Def("status", "_status", 0, 0) }

AsyncGethTxPool ==
    { AsyncDef("content", "_content", 0, 0),
      AsyncDef("inspect", "_inspect", 0, 0),
      AsyncDef("status", "_status", 0, 0) }

GethAdmin ==
    { Bind("add_peer", "admin.add_peer"),
      Bind("node_info", "admin.node_info"),
      Bind("start_rpc", "admin.start_rpc"),
      Bind("start_ws", "admin.start_ws"),
      Bind("stop_ws", "admin.stop_ws"),
      Bind("stop_rpc", "admin.stop_rpc"),
      Bind("addPeer", "admin.addPeer"),
      Bind("datadir", "admin.datadir"),
      Bind("nodeInfo", "admin.nodeInfo"),
      Bind("peers", "admin.peers"),
      Bind("startRPC", "admin.startRPC"),
      Bind("startWS", "admin.startWS"),
      Bind("stopRPC", "admin.stopRPC"),
      Bind("stopWS", "admin.stopWS") }

GethMiner ==
    { Bind("make_dag", "miner.make_dag"),
      Bind("set_extra", "miner.set_extra"),
      Bind("set_etherbase", "miner.set_etherbase"),
      Bind("set_gas_price", "miner.set_gas_price"),
      Bind("start", "miner.start"),
      Bind("stop", "miner.stop"),
      Bind("start_auto_dag", "miner.start_auto_dag"),
      Bind("stop_auto_dag", "miner.stop_auto_dag"),
      Bind("makeDag", "miner.makeDag"),
      Bind("setExtra", "miner.setExtra"),
      Bind("setEtherbase", "miner.setEtherbase"),
      Bind("setGasPrice", "miner.setGasPrice"),
      Bind("startAutoDag", "miner.startAutoDag"),
      Bind("stopAutoDag", "miner.stopAutoDag") }

Namespaces ==
    {"GethPersonal", "AsyncGethPersonal", "GethTxPool", "AsyncGethTxPool",
     "GethAdmin", "GethMiner"}

\* The class's own body.
ClassBody(ns) ==
    CASE ns = "GethPersonal" -> GethPersonal
      [] ns = "AsyncGethPersonal" -> AsyncGethPersonal
      [] ns = "GethTxPool" -> GethTxPool
      [] ns = "AsyncGethTxPool" -> AsyncGethTxPool
      [] ns = "GethAdmin" -> GethAdmin
      [] ns = "GethMiner" -> GethMiner

\* The body of the base class the namespace class derives from.
BaseBody(ns) ==
    CASE ns \in {"GethPersonal", "AsyncGethPersonal"} -> BaseGethPersonal
      [] ns \in {"GethTxPool", "AsyncGethTxPool"} -> BaseTxPool
      [] OTHER -> {}

\* The class attribute is_async.
is_async(ns) ==
    CASE ns = "GethPersonal" -> FALSE
      [] ns = "AsyncGethPersonal" -> TRUE
      [] ns = "GethTxPool" -> FALSE
      [] ns = "AsyncGethTxPool" -> TRUE
      [] OTHER -> FALSE

----------------------------------------------------------------------------
\* Attribute lookup and the method bodies

\* The public attributes a namespace class defines.
Exposed(ns) == {e.name : e \in ClassBody(ns)}

\* self.<name>: the class's own body, then its base class.
Attr(ns, name) == CHOOSE e \in ClassBody(ns) \cup BaseBody(ns) : e.name = name

\* Python binds the call's positional arguments to the def's parameters; an
\* RPC method object takes whatever it is given.
Accepts(e, a) ==
    \/ e.kind = "bind"
    \/ /\ Len(a) >= e.req
       /\ Len(a) <= e.req + e.opt

Mut_Forward_Reversed(e, a) ==
    LET f == a \o [i \in 1..(e.req + e.opt - Len(a)) |-> None]
    IN  [i \in 1..Len(f) |-> f[Len(f) + 1 - i]]

Mut_Forward_NoDefault(e, a) == a

\* The arguments a def hands to the private attribute: its parameters in
\* order, an omitted optional one holding its default None.
Forward(e, a) == a \o [i \in 1..(e.req + e.opt - Len(a)) |-> None]

\* The JSON-RPC method string of an imported RPC method object.
RPCName(fn) ==
    CASE fn \in {"ec_recover", "ecRecover"} -> "personal_ecRecover"
      [] fn \in {"import_raw_key", "importRawKey"} -> "personal_importRawKey"
      [] fn \in {"list_accounts", "listAccounts"} -> "personal_listAccounts"
      [] fn = "list_wallets" -> "personal_listWallets"
      [] fn \in {"lock_account", "lockAccount"} -> "personal_lockAccount"
      [] fn \in {"new_account", "newAccount"} -> "personal_newAccount"
      [] fn \in {"send_transaction", "sendTransaction"} -> "personal_sendTransaction"
      [] fn = "sign" -> "personal_sign"
      [] fn \in {"sign_typed_data", "signTypedData"} -> "personal_signTypedData"
      [] fn \in {"unlock_account", "unlockAccount"} -> "personal_unlockAccount"
      [] fn = "content" -> "txpool_content"
      [] fn = "inspect" -> "txpool_inspect"
      [] fn = "status" -> "txpool_status"
      [] fn \in {"admin.add_peer", "admin.addPeer"} -> "admin_addPeer"
      [] fn = "admin.datadir" -> "admin_datadir"
      [] fn \in {"admin.node_info", "admin.nodeInfo"} -> "admin_nodeInfo"
      [] fn = "admin.peers" -> "admin_peers"
      [] fn \in {"admin.start_rpc", "admin.startRPC"} -> "admin_startRPC"
      [] fn \in {"admin.start_ws", "admin.startWS"} -> "admin_startWS"
      [] fn \in {"admin.stop_rpc", "admin.stopRPC"} -> "admin_stopRPC"
      [] fn \in {"admin.stop_ws", "admin.stopWS"} -> "admin_stopWS"
      [] fn \in {"miner.make_dag", "miner.makeDag"} -> "miner_makeDag"
      [] fn \in {"miner.set_extra", "miner.setExtra"} -> "miner_setExtra"
      [] fn \in {"miner.set_etherbase", "miner.setEtherbase"} -> "miner_setEtherbase"
      [] fn \in {"miner.set_gas_price", "miner.setGasPrice"} -> "miner_setGasPrice"
      [] fn = "miner.start" -> "miner_start"
      [] fn = "miner.stop" -> "miner_stop"
      [] fn \in {"miner.start_auto_dag", "miner.startAutoDag"} -> "miner_startAutoDag"
      [] fn \in {"miner.stop_auto_dag", "miner.stopAutoDag"} -> "miner_stopAutoDag"

\* Calling an RPC method object: one request to the dispatcher, the
\* arguments as its parameters.
MethodCall(fn, params) == [method |-> RPCName(fn), params |-> params]

\* How a call of an RPC method object ends, given the dispatcher's answer:
\* it returns the decoded value or raises the dispatcher's error.
MethodResult(resp) ==
    IF resp.kind = "result"
    THEN [kind |-> "returned", val |-> resp.val]
    ELSE [kind |-> "raised", val |-> resp.val]

\* The request an accepted call builds.
Request(ns, name, a) ==
    LET e == Attr(ns, name)
    IN  IF e.kind = "bind"
        THEN MethodCall(e.target, a)
        ELSE MethodCall(Attr(ns, e.target).target, Forward(e, a))

\* The error Python raises before the body runs, or None.
LocalError(ns, name, a) ==
    IF name \notin Exposed(ns) THEN "AttributeError"
    ELSE IF ~Accepts(Attr(ns, name), a) THEN "TypeError"
    ELSE None

Mut_Dispatches_Retry(req, o) ==
    IF o.kind = "raised" THEN <<req, req>> ELSE <<req>>

\* The dispatcher calls a body makes, given how its call ended: the body is
\* one call expression, with no loop and no except clause.
Dispatches(req, o) == <<req>>

NoCall ==
    [ns |-> None, name |-> None, resp |-> NoResp, issued |-> << >>, out |-> NoOut]

Mut_Return_Dropped(o) ==
    IF o.kind = "returned" THEN [kind |-> "returned", val |-> None] ELSE o

Mut_Return_Memo(o) ==
    IF last = NoCall \/ o.kind # "returned" THEN o
    ELSE [kind |-> "returned", val |-> "memo"]

\* `return self._x(...)`: the callee's value is returned, its error propagates.
Return(o) == o

\* `await self._x(...)`: the awaited coroutine's value, or its error raised
\* at the await.
Awaited(o) == o

\* The namespace object after a body ran: no body assigns to self.
SelfAfter(obj) == obj

Rejected(ns, name, a) ==
    [ns |-> ns, name |-> name, resp |-> NoResp, issued |-> << >>,
     out |-> [kind |-> "raised", val |-> LocalError(ns, name, a)]]

\* A blocking operation from call to return, the dispatcher answering resp.
Invoke(ns, name, a, resp) ==
    IF LocalError(ns, name, a) # None
    THEN Rejected(ns, name, a)
    ELSE LET req == Request(ns, name, a)
             o == MethodResult(resp)
         IN  [ns |-> ns, name |-> name, resp |-> resp,
              issued |-> IF Attr(ns, name).kind = "bind" THEN <<req>>
                         ELSE Dispatches(req, o),
              out |-> IF Attr(ns, name).kind = "bind" THEN o ELSE Return(o)]

----------------------------------------------------------------------------
\* Coroutines

IdleTask ==
    [pc |-> "idle", ns |-> None, name |-> None, resp |-> NoResp,
     issued |-> << >>, out |-> NoOut]

\* The coroutine runs to its await: the request is with the dispatcher.
Suspended(ns, name, a) ==
    [pc |-> "awaiting", ns |-> ns, name |-> name, resp |-> NoResp,
     issued |-> <<Request(ns, name, a)>>, out |-> NoOut]

\* The coroutine resumes with the answer r to the request it awaits, and
\* returns.
Finished(tk, r) ==
    [tk EXCEPT !.pc = "done",
               !.issued = Dispatches(tk.issued[1], MethodResult(r)),
               !.out = Return(Awaited(MethodResult(r)))]

\* A non-blocking operation, awaited by the only coroutine of its loop, the
\* dispatcher answering resp.
InvokeAsync(ns, name, a, resp) ==
    IF LocalError(ns, name, a) # None
    THEN Rejected(ns, name, a)
    ELSE LET tk == Finished(Suspended(ns, name, a), resp)
         IN  [ns |-> ns, name |-> name, resp |-> resp,
              issued |-> tk.issued, out |-> tk.out]

Mut_AwaitResult_Any(t) ==
    LET others == {u \in Tasks : u # t /\ tasks[u].resp # NoResp}
    IN  IF others = {} THEN tasks[t].resp
        ELSE tasks[CHOOSE u \in others : TRUE].resp

\* What the await of task t yields: the answer to the request t's own call
\* made.
AwaitResult(t) == tasks[t].resp

----------------------------------------------------------------------------
\* Call sites

\* The classes that bind one RPC namespace.
Family(ns) ==
    CASE ns \in {"GethPersonal", "AsyncGethPersonal"} -> {"GethPersonal", "AsyncGethPersonal"}
      [] ns \in {"GethTxPool", "AsyncGethTxPool"} -> {"GethTxPool", "AsyncGethTxPool"}
      [] OTHER -> {ns}

\* The camelCase spelling of an operation name.
CamelCase(n) ==
    CASE n = "ec_recover" -> "ecRecover"
      [] n = "import_raw_key" -> "importRawKey"
      [] n = "list_accounts" -> "listAccounts"
      [] n = "list_wallets" -> "listWallets"
      [] n = "lock_account" -> "lockAccount"
      [] n = "new_account" -> "newAccount"
      [] n = "send_transaction" -> "sendTransaction"
      [] n = "sign_typed_data" -> "signTypedData"
      [] n = "unlock_account" -> "unlockAccount"
      [] n = "add_peer" -> "addPeer"
      [] n = "node_info" -> "nodeInfo"
      [] n = "start_rpc" -> "startRPC"
      [] n = "start_ws" -> "startWS"
      [] n = "stop_rpc" -> "stopRPC"
      [] n = "stop_ws" -> "stopWS"
      [] n = "make_dag" -> "makeDag"
      [] n = "set_extra" -> "setExtra"
      [] n = "set_etherbase" -> "setEtherbase"
      [] n = "set_gas_price" -> "setGasPrice"
      [] n = "start_auto_dag" -> "startAutoDag"
      [] n = "stop_auto_dag" -> "stopAutoDag"
      [] OTHER -> n

\* The names a call site may use on a namespace object: every operation name
\* of its RPC namespace, in either naming convention.
CallNames(ns) ==
    LET own == UNION {Exposed(c) : c \in Family(ns)}
    IN  own \cup {CamelCase(n) : n \in own}

------------------------------------------------------------


----------------------------------------------------------------------------
\* Blocking call sites, and an event loop that runs one coroutine to its end

Init ==
    /\ args \in ArgTuples
    /\ objs = [ns \in Namespaces |-> [is_async |-> is_async(ns)]]
    /\ last = NoCall
    /\ tasks = [t \in Tasks |-> IdleTask]

\* ns.name(*args) on a blocking namespace.
Call(ns, name) ==
    /\ ~objs[ns].is_async
    /\ \E resp \in Responses : last' = Invoke(ns, name, args, resp)
    /\ objs' = [objs EXCEPT ![ns] = SelfAfter(@)]
    /\ UNCHANGED <<args, tasks>>

\* loop.run_until_complete(ns.name(*args)) on a non-blocking namespace.
Await(ns, name) ==
    /\ objs[ns].is_async
    /\ \E resp \in Responses : last' = InvokeAsync(ns, name, args, resp)
    /\ objs' = [objs EXCEPT ![ns] = SelfAfter(@)]
    /\ UNCHANGED <<args, tasks>>

Next ==
    \E ns \in Namespaces : \E name \in CallNames(ns) :
        \/ Call(ns, name)
        \/ Await(ns, name)

Spec == Init /\ [][Next]_vars

----------------------------------------------------------------------------
\* An event loop running several coroutines at once

\* The argument tuples the concurrent call sites pass.
AsyncArgs == {<< >>, <<"v1">>, <<"v1", "v2">>, <<"v1", "v2", None>>}

InitAsync ==
    /\ args \in AsyncArgs
    /\ objs = [ns \in Namespaces |-> [is_async |-> is_async(ns)]]
    /\ last = NoCall
    /\ tasks = [t \in Tasks |-> IdleTask]

\* Task t calls ns.name(*args) and runs to the await.  A call Python rejects
\* creates no coroutine.
Start(t, ns, name) ==
    /\ tasks[t].pc = "idle"
    /\ objs[ns].is_async
    /\ LocalError(ns, name, args) = None
    /\ tasks' = [tasks EXCEPT ![t] = Suspended(ns, name, args)]
    /\ UNCHANGED <<args, objs, last>>

\* The dispatcher's answer to the request of task t arrives.
Respond(t) ==
    /\ tasks[t].pc = "awaiting"
    /\ tasks[t].resp = NoResp
    /\ \E resp \in Responses : tasks' = [tasks EXCEPT ![t].resp = resp]
    /\ UNCHANGED <<args, objs, last>>

\* The event loop resumes task t, whose awaited answer is there.
Resume(t) ==
    /\ tasks[t].pc = "awaiting"
    /\ tasks[t].resp # NoResp
    /\ tasks' = [tasks EXCEPT ![t] = Finished(@, AwaitResult(t))]
    /\ objs' = [objs EXCEPT ![tasks[t].ns] = SelfAfter(@)]
    /\ UNCHANGED <<args, last>>

NextAsync ==
    \E t \in Tasks :
        \/ \E ns \in Namespaces : \E name \in CallNames(ns) : Start(t, ns, name)
        \/ Respond(t)
        \/ Resume(t)

\* The event loop runs every callback it has scheduled: a coroutine whose
\* awaited answer has arrived is resumed.
SpecAsync ==
    InitAsync /\ [][NextAsync]_vars /\ \A t \in Tasks : WF_vars(Resume(t))

----------------------------------------------------------------------------
\* Properties

\* The documented JSON-RPC method string of an operation: the RPC namespace,
\* then the operation's camelCase name.
Prefix(ns) ==
    CASE ns \in {"GethPersonal", "AsyncGethPersonal"} -> "personal"
      [] ns \in {"GethTxPool", "AsyncGethTxPool"} -> "txpool"
      [] ns = "GethAdmin" -> "admin"
      [] ns = "GethMiner" -> "miner"

DocumentedMethod(ns, name) == Prefix(ns) \o "_" \o CamelCase(name)

\* The other class of a blocking / non-blocking pair.
Twin(ns) ==
    CASE ns = "GethPersonal" -> "AsyncGethPersonal"
      [] ns = "AsyncGethPersonal" -> "GethPersonal"
      [] ns = "GethTxPool" -> "AsyncGethTxPool"
      [] ns = "AsyncGethTxPool" -> "GethTxPool"

\* The operation ns.name(*a) run to its end, in the namespace's own mode.
Run(ns, name, a, resp) ==
    IF is_async(ns) THEN InvokeAsync(ns, name, a, resp) ELSE Invoke(ns, name, a, resp)

\* The completed operation `last` and the operation ns.name(*args) issue the
\* same dispatcher calls and end the same way, under the dispatcher behaviour
\* `last` met (under every behaviour, when `last` never reached the dispatcher).
AgreesWith(ns, name) ==
    \A resp \in Responses :
        (last.resp \in {NoResp, resp}) =>
            /\ last.issued = Run(ns, name, args, resp).issued
            /\ last.out = Run(ns, name, args, resp).out

Made == last.ns # None
OnExposed == Made /\ last.name \in Exposed(last.ns)
Accepted == OnExposed /\ Accepts(Attr(last.ns, last.name), args)
TypeError == [kind |-> "raised", val |-> "TypeError"]
AttributeError == [kind |-> "raised", val |-> "AttributeError"]

\* C1 (as claimed): every call that runs an exposed operation issues exactly
\* one dispatcher call, with the documented method string, whose parameter
\* list is exactly the caller's argument tuple, no element added.
C1_ExactlyArgs ==
    Accepted =>
        /\ Len(last.issued) = 1
        /\ last.issued[1].method = DocumentedMethod(last.ns, last.name)
        /\ last.issued[1].params = args

\* C1 (amended): every call that runs an exposed operation issues exactly
\* one dispatcher call, with the documented method string; its parameter list
\* is the argument tuple in the caller's order, followed by None for each
\* optional parameter the caller omitted.
C1_ArgsThenDefaults ==
    Accepted =>
        LET e == Attr(last.ns, last.name)
            n == IF e.kind = "bind" THEN Len(args) ELSE e.req + e.opt
        IN  /\ Len(last.issued) = 1
            /\ last.issued[1].method = DocumentedMethod(last.ns, last.name)
            /\ Len(last.issued[1].params) = n
            /\ \A i \in 1..n :
                 last.issued[1].params[i] = IF i <= Len(args) THEN args[i] ELSE None

C1_Witness ==
    /\ last.ns = "GethPersonal"
    /\ last.name = "unlock_account"
    /\ args = <<"v1", "v2">>
    /\ last.issued =
         <<[method |-> "personal_unlockAccount", params |-> <<"v1", "v2", None>>]>>

\* C2: a call of a deprecated camelCase alias issues the same dispatcher call
\* and ends the same way as the canonical operation it is paired with, for
\* the same arguments and the same dispatcher behaviour, and conversely.
C2_AliasEquivalent ==
    OnExposed =>
        \A n \in Exposed(last.ns) :
            (n # last.name /\ (last.name = CamelCase(n) \/ n = CamelCase(last.name)))
                => AgreesWith(last.ns, n)

\* C3: when the dispatcher raises E the operation ends raising exactly E,
\* after that one dispatcher call; when the dispatcher returns a value the
\* operation raises nothing.
C3_ErrorsPropagate ==
    /\ last.resp.kind = "error" =>
         /\ last.out = [kind |-> "raised", val |-> last.resp.val]
         /\ Len(last.issued) = 1
    /\ last.resp.kind = "result" => last.out.kind = "returned"

C3_Witness ==
    /\ last.ns = "AsyncGethPersonal"
    /\ last.name = "send_transaction"
    /\ last.resp = [kind |-> "error", val |-> "E2"]
    /\ last.out = [kind |-> "raised", val |-> "E2"]
    /\ Len(last.issued) = 1

\* C4: the value V the dispatcher returns is what the operation returns, and
\* what the awaited non-blocking operation resolves to: list_accounts in both
\* personal classes, and every other operation.
C4_ValueUnmodified ==
    last.resp.kind = "result" =>
        last.out = [kind |-> "returned", val |-> last.resp.val]

C4_Witness ==
    /\ last.ns = "AsyncGethPersonal"
    /\ last.name = "list_accounts"
    /\ last.issued = <<[method |-> "personal_listAccounts", params |-> << >>]>>
    /\ last.out = [kind |-> "returned", val |-> "r2"]

\* C5: an operation of a blocking class and the awaited operation of the same
\* name in its non-blocking twin issue the same dispatcher call and end the
\* same way, for the same arguments and the same dispatcher behaviour.
C5_SyncAsyncAgree ==
    (Made /\ last.ns \in {"GethPersonal", "AsyncGethPersonal", "GethTxPool", "AsyncGethTxPool"}
          /\ last.name \in Exposed(last.ns) \cap Exposed(Twin(last.ns)))
        => AgreesWith(Twin(last.ns), last.name)

C5_Witness ==
    /\ last.ns = "AsyncGethPersonal"
    /\ last.name = "unlock_account"
    /\ Len(args) = 2
    /\ last.out.kind = "returned"
    /\ last.issued = Invoke("GethPersonal", "unlock_account", args, last.resp).issued

\* C6: unlock_account in both personal classes, and unlockAccount, dispatch
\* three parameters: the account, the passphrase, and the duration, which is
\* None when the caller gave none and the caller's value otherwise.
C6_DurationDefault ==
    (Accepted /\ last.name \in {"unlock_account", "unlockAccount"}) =>
        /\ Len(last.issued) = 1
        /\ Len(last.issued[1].params) = 3
        /\ last.issued[1].params[1] = args[1]
        /\ last.issued[1].params[2] = args[2]
        /\ last.issued[1].params[3] = IF Len(args) = 2 THEN None ELSE args[3]

C6_Witness ==
    /\ last.ns = "AsyncGethPersonal"
    /\ last.name = "unlock_account"
    /\ args = <<"v2", "v1">>
    /\ last.issued[1].params = <<"v2", "v1", None>>

\* C7 (as claimed): in every namespace class, the camelCase spelling of each
\* exposed operation is itself an exposed operation.
C7_AliasInEveryClass ==
    Made =>
        \A n \in Exposed(last.ns) :
            last.name = CamelCase(n) => last.out # AttributeError

\* C7 (amended): GethPersonal, GethAdmin and GethMiner expose the camelCase
\* spelling of each of their operations, bound to the same RPC method, except
\* list_wallets, which has none; AsyncGethPersonal exposes no camelCase
\* spelling of its snake_case operations (the txpool operation names are the
\* same in both spellings).
C7_AliasWhereDefined ==
    Made =>
        \A n \in Exposed(last.ns) :
            (last.name = CamelCase(n) /\ last.name # n) =>
                IF last.ns = "AsyncGethPersonal" \/ n = "list_wallets"
                THEN last.out = AttributeError /\ last.issued = << >>
                ELSE /\ last.out # AttributeError
                     /\ last.out # TypeError =>
                          /\ Len(last.issued) = 1
                          /\ last.issued[1].method = DocumentedMethod(last.ns, n)

C7_Witness ==
    /\ last.ns = "AsyncGethPersonal"
    /\ last.name = "ecRecover"
    /\ last.out = AttributeError

C10_PasswordDefault ==
    /\ (last.ns = "GethPersonal" /\ last.name = "signTypedData" /\ Len(args) = 2) =>
         /\ Len(last.issued) = 1
         /\ last.issued[1].params = args \o <<None>>
    /\ (/\ last.ns \in {"GethPersonal", "AsyncGethPersonal"}
        /\ last.name \in {"sign", "sign_typed_data"}
        /\ Len(args) = 2) =>
         /\ last.issued = << >>
         /\ last.out = TypeError

C10_Witness ==
    /\ last.ns = "AsyncGethPersonal"
    /\ last.name = "sign_typed_data"
    /\ Len(args) = 2
    /\ last.out = TypeError
    /\ last.issued = << >>

\* C8: a coroutine is done only after the answer to its own request has
\* arrived, it then ends with exactly that answer (the value returned, the
\* error raised) whatever the other coroutines were doing, and once the answer
\* has arrived the coroutine does end.
C8_OwnAnswer ==
    \A t \in Tasks :
        tasks[t].pc = "done" =>
            /\ tasks[t].resp \in Responses
            /\ tasks[t].out.val = tasks[t].resp.val
            /\ tasks[t].out.kind =
                 (IF tasks[t].resp.kind = "result" THEN "returned" ELSE "raised")

C8_AsyncCompletion ==
    /\ []C8_OwnAnswer
    /\ \A t \in Tasks :
         (tasks[t].pc = "awaiting" /\ tasks[t].resp # NoResp) ~> (tasks[t].pc = "done")

C8_Witness ==
    /\ tasks[1].pc = "done"
    /\ tasks[2].pc = "awaiting"
    /\ tasks[2].resp # NoResp
    /\ tasks[1].resp # tasks[2].resp
    /\ tasks[1].out.val = tasks[1].resp.val

====
